---- MODULE Spec2Model ----
\* A model of the FromZeros derive macro (fromzeros_derive/src/lib.rs) and of the
\* leaf implementations it relies on (fromzeros/src/lib.rs).
\*
\* One invocation of the macro is one step: the parsed input (syn::DeriveInput)
\* is the initial state, and the step of the matching arm of `match ast.data`
\* produces either one emitted implementation or one panic message.
EXTENDS Integers, Sequences, FiniteSets, TLC

VARIABLES
  ast,        \* the parsed syn::DeriveInput
  pc,         \* "parsed" before the macro has run, "done" after
  layout,     \* the enum arm's value of the test on line 45, "n/a" elsewhere
  candidate,  \* the enum arm's zero_variant(data), as a sequence of 0 or 1 index
  output      \* what the invocation produced: artifacts and panics

vars == <<ast, pc, layout, candidate, output>>

----------------------------------------------------------------------------
\* Bounds of the input space.

MaxAttrs == 2
MaxNested == 2
MaxVariants == 3
MaxFields == 2
MaxParams == 2

SeqsUpTo(S, n) == UNION {[1..k -> S] : k \in 0..n}

Min(S) == CHOOSE x \in S : \A y \in S : x <= y

\* Option<T> is a sequence of length 0 (None) or 1 (Some).
None == <<>>
Some(x) == <<x>>

----------------------------------------------------------------------------
\* The input: syn's data types, as far as the macro reads them.

\* syn::NestedMeta: Meta(Meta::Word(ident)), Meta(Meta::List(..)) or Literal(lit).
NestedMetas ==
  { [kind |-> "Word", val |-> "u8"],
    [kind |-> "Word", val |-> "C"] }

ReprLists ==
  { [meta |-> "List", ident |-> "repr", nested |-> n] : n \in SeqsUpTo(NestedMetas, MaxNested) }

\* syn::Attribute, by what Attribute::interpret_meta returns for it.
Attributes ==
  ReprLists \cup
  { [meta |-> "List", ident |-> "repr", nested |-> <<[kind |-> "Literal", val |-> "u8"]>>],
    [meta |-> "List", ident |-> "repr", nested |-> <<[kind |-> "List", val |-> "align"]>>],
    [meta |-> "List", ident |-> "cfg", nested |-> <<[kind |-> "Word", val |-> "u8"]>>],
    [meta |-> "NameValue", ident |-> "repr", nested |-> <<>>],
    [meta |-> "None", ident |-> "", nested |-> <<>>] }

AttrLists == SeqsUpTo(Attributes, MaxAttrs)

\* syn::Type of a field: a leaf type, the generic parameter T, a type
\* without the capability.
Types == {"u8", "T", "String"}

\* syn::Field: ident is None for a tuple field.
UnnamedFields == { [ident |-> None, ty |-> t] : t \in Types }
NamedFields == { [ident |-> Some(n), ty |-> t] : n \in {"x", "y"}, t \in Types }

\* syn::Fields
UnitFields == [shape |-> "Unit", list |-> <<>>]
UnnamedFieldLists == { [shape |-> "Unnamed", list |-> l] : l \in SeqsUpTo(UnnamedFields, MaxFields) }
NamedFieldLists == { [shape |-> "Named", list |-> l] : l \in SeqsUpTo(NamedFields, MaxFields) }
FieldLists == {UnitFields} \cup UnnamedFieldLists \cup NamedFieldLists

\* syn::Variant::discriminant: absent, an integer literal (Expr::Lit of
\* Lit::Int), or any other expression; `-1` is Expr::Unary(Neg, 1).
Discriminants ==
  { [kind |-> "none", value |-> 0],
    [kind |-> "lit", value |-> 0],
    [kind |-> "lit", value |-> 1],
    [kind |-> "neg", value |-> 1] }

VariantFieldLists ==
  { UnitFields,
    [shape |-> "Unnamed", list |-> <<[ident |-> None, ty |-> "u8"]>>],
    [shape |-> "Named", list |-> <<[ident |-> Some("x"), ty |-> "String"]>>] }

VariantIdents == <<"A", "B", "C", "D", "E", "F">>

VariantBodies == [discriminant : Discriminants, fields : VariantFieldLists]

\* the variants of an enum are named by their position
VariantListsUpTo(n) ==
  { [i \in 1..Len(b) |->
       [ident |-> VariantIdents[i], discriminant |-> b[i].discriminant, fields |-> b[i].fields]]
    : b \in SeqsUpTo(VariantBodies, n) }

VariantLists == VariantListsUpTo(MaxVariants)

\* syn::GenericParam
GenericParams ==
  { [kind |-> "Type", ident |-> "T", bounds |-> <<>>],
    [kind |-> "Type", ident |-> "T", bounds |-> <<"Copy">>],
    [kind |-> "Lifetime", ident |-> "'a", bounds |-> <<>>],
    [kind |-> "Const", ident |-> "N", bounds |-> <<>>] }

GenericLists == SeqsUpTo(GenericParams, MaxParams)

Struct(g, f) ==
  [kind |-> "Struct", ident |-> "Foo", attrs |-> <<>>, generics |-> g, fields |-> f, variants |-> <<>>]
Union(g, f) ==
  [kind |-> "Union", ident |-> "Foo", attrs |-> <<>>, generics |-> g, fields |-> f, variants |-> <<>>]
Enum(a, g, v) ==
  [kind |-> "Enum", ident |-> "Foo", attrs |-> a, generics |-> g, fields |-> UnitFields, variants |-> v]

\* The enums explored vary one of attributes, variants and generics in full
\* while the other two range over short lists.
FewAttrLists ==
  { <<>>,
    <<[meta |-> "List", ident |-> "repr", nested |-> <<[kind |-> "Word", val |-> "u8"]>>]>>,
    <<[meta |-> "List", ident |-> "repr", nested |-> <<[kind |-> "Word", val |-> "C"]>>]>>,
    <<[meta |-> "List", ident |-> "repr", nested |-> <<[kind |-> "Word", val |-> "C"]>>],
      [meta |-> "List", ident |-> "repr", nested |-> <<[kind |-> "Word", val |-> "u8"]>>]>> }

----------------------------------------------------------------------------
\* fromzeros/src/lib.rs: the types with a leaf implementation.

LeafTypes ==
  { "()", "bool", "char", "i8", "i16", "i32", "i64", "i128", "isize",
    "f32", "f64", "u8", "u16", "u32", "u64", "u128", "usize" }

----------------------------------------------------------------------------
\* fromzeros_derive/src/lib.rs

FromZeros == "fromzeros::FromZeros"

\* a variant of add_trait_bounds that bounds every parameter, not only the
\* type parameters
add_trait_bounds_every_param(generics) ==
  [i \in 1..Len(generics) |-> [generics[i] EXCEPT !.bounds = Append(@, FromZeros)]]

\* adds `FromZeros` bounds to each generic parameter
add_trait_bounds(generics) ==
  [i \in 1..Len(generics) |->
     IF generics[i].kind = "Type"
       THEN [generics[i] EXCEPT !.bounds = Append(@, FromZeros)]
       ELSE generics[i]]

\* a variant of zeroed_call that zeroes the field with std::mem::zeroed(),
\* for which the field's type needs no capability
zeroed_call_unchecked(f, i) ==
  [ident |-> f.ident, as |-> "std::mem", ty |-> f.ty, span |-> i]

\* one `<#ty as fromzeros::FromZeros>::zeroed()`, spanned at the field
zeroed_call(f, i) ==
  [ident |-> f.ident, as |-> FromZeros, ty |-> f.ty, span |-> i]

\* a variant of zeroed_fields that emits the calls in reverse order
zeroed_fields_reversed(fields) ==
  LET n == Len(fields.list)
  IN  CASE fields.shape = "Unit" ->
             [delim |-> "none", elems |-> <<>>]
        [] fields.shape = "Unnamed" ->
             [delim |-> "paren",
              elems |-> [i \in 1..n |->
                           [ident |-> None, as |-> FromZeros,
                            ty |-> fields.list[n + 1 - i].ty, span |-> n + 1 - i]]]
        [] fields.shape = "Named" ->
             [delim |-> "brace",
              elems |-> [i \in 1..n |->
                           [ident |-> fields.list[n + 1 - i].ident, as |-> FromZeros,
                            ty |-> fields.list[n + 1 - i].ty, span |-> n + 1 - i]]]

\* Given `n` fields, produce `n` comma-separated calls to `FromZeros::zeroed()`
zeroed_fields(fields) ==
  CASE fields.shape = "Unit" ->
         [delim |-> "none", elems |-> <<>>]
    [] fields.shape = "Unnamed" ->
         [delim |-> "paren",
          elems |-> [i \in 1..Len(fields.list) |->
                       [zeroed_call(fields.list[i], i) EXCEPT !.ident = None]]]
    [] fields.shape = "Named" ->
         [delim |-> "brace",
          elems |-> [i \in 1..Len(fields.list) |-> zeroed_call(fields.list[i], i)]]

\* implement `FromZeros` for a given type
impl_fromzeros(name, generics, variant, fields) ==
  [name |-> name,
   generics |-> add_trait_bounds(generics),
   variant |-> variant,
   zeroed |-> zeroed_fields(fields)]

\* given a variant, produce the value of its explicit discriminant, if any
explicit_discriminant(variant) ==
  IF variant.discriminant.kind = "lit"
    THEN Some(variant.discriminant.value)
    ELSE None

unwrap_or(opt, default) == IF opt = None THEN default ELSE opt[1]

\* a variant of zero_variant that looks for an explicit 0 among all the
\* variants before it falls back on the first variant's implicit 0
zero_variant_explicit_first(variants) ==
  LET zeros == { i \in 1..Len(variants) : explicit_discriminant(variants[i]) = Some(0) }
  IN  IF zeros # {} THEN Some(Min(zeros))
      ELSE IF Len(variants) > 0 /\ explicit_discriminant(variants[1]) = None THEN Some(1)
      ELSE None

\* a variant of zero_variant that takes the discriminant of a later variant
\* without a literal to be 0 as well
zero_variant_implicit_later(variants) ==
  IF Len(variants) = 0 THEN None
  ELSE
    LET first_discriminant == unwrap_or(explicit_discriminant(variants[1]), 0)
        rest == { i \in 2..Len(variants) : unwrap_or(explicit_discriminant(variants[i]), 0) = 0 }
    IN  IF first_discriminant = 0 THEN Some(1)
        ELSE IF rest = {} THEN None
        ELSE Some(Min(rest))

\* a variant of zero_variant without the first variant's implicit 0
zero_variant_explicit_only(variants) ==
  LET zeros == { i \in 1..Len(variants) : explicit_discriminant(variants[i]) = Some(0) }
  IN  IF zeros # {} THEN Some(Min(zeros)) ELSE None

\* given an enum, produce (the index of) the variant with a zero
\* discriminant, if any
zero_variant(variants) ==
  IF Len(variants) = 0 THEN None
  ELSE
    LET first_discriminant == unwrap_or(explicit_discriminant(variants[1]), 0)
        rest == { i \in 2..Len(variants) : explicit_discriminant(variants[i]) = Some(0) }
    IN  IF first_discriminant = 0 THEN Some(1)
        ELSE IF rest = {} THEN None
        ELSE Some(Min(rest))

\* produces `true` if all variants are unit-like
is_clike(variants) ==
  \A i \in 1..Len(variants) : variants[i].fields.shape = "Unit"

VALID ==
  { "i8", "i16", "i32", "i64", "i128", "isize",
    "u8", "u16", "u32", "u64", "u128", "usize" }

\* produces true if the representation is primitive
is_primitive(meta) == meta.kind = "Word" /\ meta.val \in VALID

\* produces the repr attr, if any
repr(attr) ==
  IF attr.meta = "List" /\ attr.ident = "repr" THEN Some(attr) ELSE None

\* attrs.iter().find_map(repr): the first attribute for which repr is Some
find_map_repr(attrs) ==
  LET hits == { i \in 1..Len(attrs) : repr(attrs[i]) # None }
  IN  IF hits = {} THEN None ELSE repr(attrs[Min(hits)])

has_primitive_repr(attrs) ==
  LET found == find_map_repr(attrs)
  IN  IF found # None
        THEN \E j \in 1..Len(found[1].nested) : is_primitive(found[1].nested[j])
        ELSE FALSE

\* the test of line 45, `is_clike(data) || has_primitive_repr(attrs)`,
\* by the disjunct that decides it
RepresentationKind(a) ==
  IF is_clike(a.variants) THEN "CLike"
  ELSE IF has_primitive_repr(a.attrs) THEN "PrimitiveNumeric"
  ELSE "Undefined"

Emitted(artifact) == [artifacts |-> <<artifact>>, panics |-> <<>>]
Panic(error, message) ==
  [artifacts |-> <<>>, panics |-> <<[error |-> error, message |-> message]>>]

\* panic!("{} must be either C-like, or use a primitive repr.", name)
LayoutUndefinedMessage(name) ==
  <<name, " must be either C-like, or use a primitive repr.">>

\* panic!("{} does not have a variant with a provably-zero discriminant.")
\* has no argument: the message is the literal itself
NoZeroDiscriminantMessage(name) ==
  <<"{} does not have a variant with a provably-zero discriminant.">>

\* a variant of derive_enum that looks for the zero variant before it
\* tests the layout
derive_enum_resolve_first(a) ==
  LET variant == zero_variant(a.variants)
  IN  IF variant = None
        THEN Panic("NoZeroDiscriminant", NoZeroDiscriminantMessage(a.ident))
        ELSE IF RepresentationKind(a) = "Undefined"
          THEN Panic("LayoutUndefined", LayoutUndefinedMessage(a.ident))
          ELSE Emitted(impl_fromzeros(a.ident, a.generics,
                                      Some(a.variants[variant[1]].ident),
                                      a.variants[variant[1]].fields))

\* the enum arm of from_zeros_derive
derive_enum(a) ==
  IF RepresentationKind(a) = "Undefined"
    THEN Panic("LayoutUndefined", LayoutUndefinedMessage(a.ident))
    ELSE LET variant == zero_variant(a.variants)
         IN  IF variant # None
               THEN Emitted(impl_fromzeros(a.ident, a.generics,
                                           Some(a.variants[variant[1]].ident),
                                           a.variants[variant[1]].fields))
               ELSE Panic("NoZeroDiscriminant", NoZeroDiscriminantMessage(a.ident))

from_zeros_derive(a) ==
  CASE a.kind = "Struct" -> Emitted(impl_fromzeros(a.ident, a.generics, None, a.fields))
    [] a.kind = "Union" -> Emitted(impl_fromzeros(a.ident, a.generics, None, a.fields))
    [] a.kind = "Enum" -> derive_enum(a)

----------------------------------------------------------------------------
\* The state machine: one macro invocation per behaviour.

Init ==
  /\ \/ \E g \in GenericLists, f \in FieldLists : ast = Struct(g, f)
     \/ \E g \in GenericLists, f \in NamedFieldLists : ast = Union(g, f)
     \/ \E a \in AttrLists, v \in VariantListsUpTo(1) : ast = Enum(a, <<>>, v)
     \/ \E a \in FewAttrLists, v \in VariantLists : ast = Enum(a, <<>>, v)
     \/ \E g \in GenericLists, v \in VariantListsUpTo(1) : ast = Enum(<<>>, g, v)
  /\ pc = "parsed"
  /\ layout = "n/a"
  /\ candidate = None
  /\ output = [artifacts |-> <<>>, panics |-> <<>>]

DeriveStruct ==
  /\ pc = "parsed"
  /\ ast.kind = "Struct"
  /\ output' = from_zeros_derive(ast)
  /\ pc' = "done"
  /\ UNCHANGED <<ast, layout, candidate>>

DeriveUnion ==
  /\ pc = "parsed"
  /\ ast.kind = "Union"
  /\ output' = from_zeros_derive(ast)
  /\ pc' = "done"
  /\ UNCHANGED <<ast, layout, candidate>>

DeriveEnum ==
  /\ pc = "parsed"
  /\ ast.kind = "Enum"
  /\ layout' = RepresentationKind(ast)
  /\ candidate' = IF RepresentationKind(ast) = "Undefined" THEN None ELSE zero_variant(ast.variants)
  /\ output' = from_zeros_derive(ast)
  /\ pc' = "done"
  /\ UNCHANGED ast

Next == DeriveStruct \/ DeriveUnion \/ DeriveEnum

Spec == Init /\ [][Next]_vars

----------------------------------------------------------------------------
\* The vocabulary of the properties, stated on the input and the output.

Done == pc = "done"
IsEnum == ast.kind = "Enum"

Succeeded == Len(output.artifacts) = 1 /\ output.panics = <<>>
Failed(error) ==
  /\ output.artifacts = <<>>
  /\ Len(output.panics) = 1
  /\ output.panics[1].error = error

\* every variant is unit-shaped
AllUnit == \A i \in 1..Len(ast.variants) : ast.variants[i].fields.shape = "Unit"

PrimitiveIntegerTypes ==
  { "i8", "i16", "i32", "i64", "i128", "isize",
    "u8", "u16", "u32", "u64", "u128", "usize" }

\* some representation attribute of the attribute set names a primitive integer type
NamesPrimitive ==
  \E i \in 1..Len(ast.attrs) :
    /\ ast.attrs[i].meta = "List"
    /\ ast.attrs[i].ident = "repr"
    /\ \E j \in 1..Len(ast.attrs[i].nested) :
         /\ ast.attrs[i].nested[j].kind = "Word"
         /\ ast.attrs[i].nested[j].val \in PrimitiveIntegerTypes

IsLiteral(v, n) == v.discriminant.kind = "lit" /\ v.discriminant.value = n
NoDiscriminant(v) == v.discriminant.kind = "none"

\* the later variants whose explicit discriminant literal is 0
LaterExplicitZeros == { i \in 2..Len(ast.variants) : IsLiteral(ast.variants[i], 0) }

\* the field list handed to the Field Composer
Supplied ==
  IF ast.kind = "Enum" THEN ast.variants[candidate[1]].fields ELSE ast.fields

\* the type supports the capability: a leaf type, or a type parameter of the
\* input (which receives the propagated bound)
Supports(ty) ==
  \/ ty \in LeafTypes
  \/ \E i \in 1..Len(ast.generics) :
       ast.generics[i].kind = "Type" /\ ast.generics[i].ident = ty

HasUnsupportedField(fields) ==
  \E i \in 1..Len(fields.list) : ~Supports(fields.list[i].ty)

----------------------------------------------------------------------------
\* C1: the classification of every enum follows the three-way rule over the
\* whole attribute set: CLike if every variant is unit-shaped, else
\* PrimitiveNumeric (and no LayoutUndefined) if any representation attribute
\* names a primitive integer type, else LayoutUndefined.
C1_ThreeWayClassification ==
  Done /\ IsEnum =>
    /\ layout = IF AllUnit THEN "CLike"
                ELSE IF NamesPrimitive THEN "PrimitiveNumeric"
                ELSE "Undefined"
    /\ Failed("LayoutUndefined") <=> (~AllUnit /\ ~NamesPrimitive)

\* C2: when the resolver runs on an enum whose first variant has no explicit
\* discriminant or the explicit literal 0, it selects the first variant,
\* whatever the later variants declare.
C2_FirstVariantSelected ==
  ( /\ Done /\ IsEnum /\ layout # "Undefined"
    /\ Len(ast.variants) >= 1
    /\ (NoDiscriminant(ast.variants[1]) \/ IsLiteral(ast.variants[1], 0)) )
  => /\ candidate = Some(1)
     /\ Succeeded
     /\ output.artifacts[1].variant = Some(ast.variants[1].ident)

\* `A, B = 0, ..` has been resolved
C2_Witness ==
  /\ Done /\ IsEnum
  /\ Len(ast.variants) >= 2
  /\ NoDiscriminant(ast.variants[1])
  /\ IsLiteral(ast.variants[2], 0)
  /\ Succeeded
  /\ output.artifacts[1].variant = Some("A")

\* C3: when the first variant's effective discriminant (its explicit integer
\* literal) is nonzero, the resolver selects the earliest later variant whose
\* explicit literal is 0, never a later variant without that literal, and
\* fails with NoZeroDiscriminant, emitting nothing, if there is none.
C3_EarliestExplicitZero ==
  ( /\ Done /\ IsEnum /\ layout # "Undefined"
    /\ Len(ast.variants) >= 1
    /\ ast.variants[1].discriminant.kind = "lit"
    /\ ast.variants[1].discriminant.value # 0 )
  => IF LaterExplicitZeros = {}
       THEN candidate = None /\ Failed("NoZeroDiscriminant")
       ELSE /\ candidate = Some(Min(LaterExplicitZeros))
            /\ Succeeded
            /\ output.artifacts[1].variant = Some(ast.variants[Min(LaterExplicitZeros)].ident)

\* `A = 1, B, C = 0` has been resolved to C
C3_Witness ==
  /\ Done /\ IsEnum
  /\ Len(ast.variants) = 3
  /\ IsLiteral(ast.variants[1], 1)
  /\ NoDiscriminant(ast.variants[2])
  /\ IsLiteral(ast.variants[3], 0)
  /\ Succeeded
  /\ output.artifacts[1].variant = Some("C")

\* C4: an enum that is not all-unit and has no primitive-representation
\* attribute fails with LayoutUndefined whatever its discriminants, and
\* NoZeroDiscriminant is reported only for an enum that is all-unit or has a
\* primitive-representation attribute.
C4_ClassificationFirst ==
  Done /\ IsEnum =>
    /\ (~AllUnit /\ ~NamesPrimitive => Failed("LayoutUndefined"))
    /\ (Failed("NoZeroDiscriminant") => AllUnit \/ NamesPrimitive)

\* an enum with an explicit zero and no defined layout has failed
C4_Witness ==
  /\ Done /\ IsEnum
  /\ ~AllUnit /\ ~NamesPrimitive
  /\ \E i \in 1..Len(ast.variants) : IsLiteral(ast.variants[i], 0)
  /\ Failed("LayoutUndefined")

\* C5: whenever the first variant carries an explicit discriminant that is
\* not zero, a negative one included, and no later variant has the explicit
\* literal 0, the resolver fails with NoZeroDiscriminant.
C5_NonzeroFirstFails ==
  ( /\ Done /\ IsEnum /\ layout # "Undefined"
    /\ Len(ast.variants) >= 1
    /\ ~NoDiscriminant(ast.variants[1])
    /\ ~IsLiteral(ast.variants[1], 0)
    /\ LaterExplicitZeros = {} )
  => Failed("NoZeroDiscriminant")

\* C6, as stated: every all-unit enum without explicit discriminants
\* resolves to its first declared variant and generation succeeds.
C6_AsStated ==
  ( /\ Done /\ IsEnum /\ AllUnit
    /\ \A i \in 1..Len(ast.variants) : NoDiscriminant(ast.variants[i]) )
  => /\ Succeeded
     /\ ast.variants # <<>>
     /\ output.artifacts[1].variant = Some(ast.variants[1].ident)

\* C6, amended: every all-unit enum without explicit discriminants that
\* declares at least one variant resolves to its first declared variant and
\* generation succeeds, with or without a representation attribute.
C6_NonEmptyCLikeFirst ==
  ( /\ Done /\ IsEnum /\ AllUnit
    /\ ast.variants # <<>>
    /\ \A i \in 1..Len(ast.variants) : NoDiscriminant(ast.variants[i]) )
  => /\ Succeeded
     /\ output.artifacts[1].variant = Some(ast.variants[1].ident)
     /\ output.artifacts[1].zeroed.elems = <<>>

\* `A, B, C` without attributes has been resolved to A
C6_Witness ==
  /\ Done /\ IsEnum /\ AllUnit
  /\ ast.attrs = <<>>
  /\ Len(ast.variants) = 3
  /\ \A i \in 1..Len(ast.variants) : NoDiscriminant(ast.variants[i])
  /\ Succeeded
  /\ output.artifacts[1].variant = Some("A")

\* C7, as stated: a struct, union or selected variant with a field whose
\* type does not support the capability fails with UnmetFieldConstraint and
\* emits nothing.
C7_AsStated ==
  ( /\ Done
    /\ IsEnum => candidate # None
    /\ HasUnsupportedField(Supplied) )
  => Failed("UnmetFieldConstraint")

\* C7, amended: the generator never reports UnmetFieldConstraint; it emits
\* the implementation for every struct and union, and every emitted
\* sub-expression obtains its value through the capability of the field's
\* declared type, so that a field type without the capability is still named
\* in the emitted implementation and is left to its type check.
C7_ConstraintLeftToEmittedCode ==
  Done =>
    /\ \A k \in 1..Len(output.panics) :
         output.panics[k].error \in {"LayoutUndefined", "NoZeroDiscriminant"}
    /\ (ast.kind \in {"Struct", "Union"} => Succeeded)
    /\ Succeeded =>
         LET elems == output.artifacts[1].zeroed.elems
         IN  /\ \A i \in 1..Len(elems) : elems[i].as = "fromzeros::FromZeros"
             /\ \A i \in 1..Len(Supplied.list) :
                  ~Supports(Supplied.list[i].ty) =>
                    \E j \in 1..Len(elems) : elems[j].ty = Supplied.list[i].ty

\* a struct with a String field has been given an implementation
C7_Witness ==
  /\ Done
  /\ ast.kind = "Struct"
  /\ \E i \in 1..Len(ast.fields.list) : ast.fields.list[i].ty = "String"
  /\ HasUnsupportedField(ast.fields)
  /\ Succeeded

\* C8: the generics of every emitted implementation have the arity and order
\* of the input's; every type parameter has exactly one capability bound
\* appended after its existing bounds; every other parameter is unchanged.
C8_GenericsPreserved ==
  Done /\ Succeeded =>
    LET old == ast.generics
        new == output.artifacts[1].generics
    IN  /\ Len(new) = Len(old)
        /\ \A i \in 1..Len(old) :
             IF old[i].kind = "Type"
               THEN /\ new[i].kind = "Type"
                    /\ new[i].ident = old[i].ident
                    /\ Len(new[i].bounds) = Len(old[i].bounds) + 1
                    /\ SubSeq(new[i].bounds, 1, Len(old[i].bounds)) = old[i].bounds
                    /\ new[i].bounds[Len(new[i].bounds)] = "fromzeros::FromZeros"
               ELSE new[i] = old[i]

\* an implementation for <'a, T: Copy> (in either order) has been emitted
C8_Witness ==
  /\ Done /\ Succeeded
  /\ \E i \in 1..Len(ast.generics) :
       ast.generics[i].kind = "Type" /\ ast.generics[i].bounds = <<"Copy">>
  /\ \E i \in 1..Len(ast.generics) : ast.generics[i].kind # "Type"

\* C9: whenever generation fails with LayoutUndefined or NoZeroDiscriminant,
\* the message contains the identifier of the type being processed.
C9_DiagnosticNamesType ==
  Done =>
    \A k \in 1..Len(output.panics) :
      \E m \in 1..Len(output.panics[k].message) :
        output.panics[k].message[m] = ast.ident

\* C10: the emitted construction has exactly one sub-expression per supplied
\* field, the i-th for the type (and name) of the i-th field, and none for a
\* Unit list; the supplied list is the struct's or union's own, unqualified,
\* or the selected variant's, qualified by that variant.
C10_ExactlyTheSuppliedFields ==
  Done /\ Succeeded =>
    LET art == output.artifacts[1]
        elems == art.zeroed.elems
    IN  /\ IF IsEnum
             THEN /\ candidate # None
                  /\ art.variant = Some(ast.variants[candidate[1]].ident)
             ELSE art.variant = None
        /\ Len(elems) = Len(Supplied.list)
        /\ \A i \in 1..Len(elems) :
             /\ elems[i].ty = Supplied.list[i].ty
             /\ elems[i].ident = Supplied.list[i].ident
        /\ (Supplied.shape = "Unit" => elems = <<>> /\ art.zeroed.delim = "none")
        /\ (Supplied.shape = "Unnamed" => art.zeroed.delim = "paren")
        /\ (Supplied.shape = "Named" => art.zeroed.delim = "brace")

\* the second variant of an enum was selected, and only its field appears
C10_Witness ==
  /\ Done /\ Succeeded /\ IsEnum
  /\ candidate = Some(2)
  /\ ast.variants[1].fields.shape = "Named"
  /\ ast.variants[2].fields.shape = "Unnamed"
  /\ output.artifacts[1].variant = Some("B")
  /\ Len(output.artifacts[1].zeroed.elems) = 1
  /\ output.artifacts[1].zeroed.elems[1].ty = "u8"

====
